---- MODULE Spec2Model ----
(***************************************************************************)
(* A model of the wasmgl rendering core:                                   *)
(*   - the frame scheduler, render_loop, in its two variants               *)
(*     (src/src/renderer.rs:285-303 and src/src/lib2.rs:336-362);          *)
(*   - the shader wrapper, Shader::new (src/src/renderer.rs:102-138);      *)
(*   - the typed buffers and the vertex array, VBO and VAO                 *)
(*     (src/src/renderer.rs:153-282 and src/src/lib2.rs:109-165);          *)
(*   - the renderers' init and draws (src/src/lib.rs, src/src/lib2.rs).    *)
(*                                                                         *)
(* The scheduler runs on the single thread of the host's event loop.  Rust *)
(* code that is running is a stack of activations (the start function, a   *)
(* frame closure, a resize closure); the host delivers an event only when  *)
(* the stack is empty.  The user callback is opaque: while an activation   *)
(* is at "in_cb" the callback is executing.  The crate is built for wasm,  *)
(* where a panic aborts: the panicking activation ends up to the host call *)
(* that entered it, and none of its destructors runs.                      *)
(***************************************************************************)
EXTENDS Integers, Sequences, FiniteSets, TLC

\* ------------------------------------------------------------------------
\* Bounds

\* The history records the first MaxLog events; later events still happen.
MaxLog == 18

\* Activations that may be stacked by synchronous dispatch.
MaxDepth == 3

\* Names passed to Shader::new in each of its two lists.
MaxNames == 2

\* Buffer specs given to VAO_new.
MaxBuffers == 2

\* Records in one host sequence.
MaxRecords == 2

\* Draw calls that are recorded.
MaxDraws == 3

\* ------------------------------------------------------------------------
\* State

VARIABLES
    variant,      \* which render_loop runs: "renderer" or "lib2"
    hostRaf,      \* the host offers requestAnimationFrame
    hostListen,   \* the host accepts addEventListener("resize", ..)
    stack,        \* activations of scheduler code, innermost last
    borrows,      \* live RefMut borrows of the RefCell around the callback
    rafPending,   \* animation-frame requests pending with the host
    listeners,    \* resize listeners registered with the host
    result,       \* how render_loop ended: "none" while it has not
    log           \* the history of events, oldest first

schedVars == <<variant, hostRaf, hostListen, stack, borrows, rafPending,
               listeners, result, log>>

VARIABLES
    vertOk,       \* the vertex source compiles (COMPILE_STATUS)
    fragOk,       \* the fragment source compiles
    linkOk,       \* the two stages link (LINK_STATUS)
    declAttrs,    \* attribute names the linked program declares
    declUniforms, \* uniform names the linked program declares
    attributes,   \* Shader::new's `attributes` argument
    uniforms,     \* Shader::new's `uniforms` argument
    shPc,         \* position in Shader::new
    shIdx,        \* position of the name iterator being collected
    gl,           \* the GPU objects of this construction
    glLog,        \* the calls made on the context, oldest first
    attribute_locations,  \* Shader.attribute_locations
    uniform_locations,    \* Shader.uniform_locations
    shResult,     \* how Shader::new ended: "none" while it has not
    lookup        \* the last find_attr / find_uniform call and its outcome

shaderVars == <<vertOk, fragOk, linkOk, declAttrs, declUniforms, attributes,
                uniforms, shPc, shIdx, gl, glLog, attribute_locations,
                uniform_locations, shResult, lookup>>

VARIABLES
    bufVariant,   \* which VBO: "renderer" (renderer.rs) or "lib2" (lib2.rs)
    specs,        \* the buffer specs given to VAO_new, in order
    vaoPc,        \* position in VAO_new
    vaoHandle,    \* VAO.handle, 0 before it is created
    vbos,         \* VAO.vbos: the VBO structs built so far, in order
    glVaosMade,   \* vertex arrays the context has created
    glBuffersMade,\* buffers the context has created
    glVao,        \* the bound vertex array, 0 for the default one
    glArray,      \* the buffer bound to ARRAY_BUFFER, 0 for none
    glElement,    \* per vertex array, the buffer bound to ELEMENT_ARRAY_BUFFER
    glData,       \* per buffer, its content and usage hint
    glAttrib,     \* per vertex array and slot, the attribute pointer
    glEnabled,    \* per vertex array, the enabled slots
    lenResult,    \* the last len() call and what it returned
    synced        \* per VBO, the host bytes as of its last synchronization
                  \* and the synchronizations since its last host write

bufVars == <<bufVariant, specs, vaoPc, vaoHandle, vbos, glVaosMade,
             glBuffersMade, glVao, glArray, glElement, glData, glAttrib,
             glEnabled, lenResult, synced>>

VARIABLES
    rVariant,     \* which renderer's init runs
    rPc,          \* its position in the steps of init, 0 when stopped
    rSlots,       \* attr_locations: the slot of each attribute name
    rBuffer,      \* the handle of the renderer's vertex buffer
    rListening,   \* the resize listener is registered
    rRaf,         \* an animation frame is requested
    drawLog       \* per draw call, the vertex array state it read

renderVars == <<rVariant, rPc, rSlots, rBuffer, rListening, rRaf, drawLog>>

vars == <<schedVars, shaderVars, bufVars, renderVars>>

\* What the scheduler's steps leave alone, what Shader::new's do, what the
\* buffers' do, and what the renderers' init and draws do.
notSched == <<shaderVars, bufVars, renderVars>>

notShader == <<schedVars, bufVars, renderVars>>

notBuf == <<schedVars, shaderVars, renderVars>>

notRender == <<schedVars, shaderVars>>

Variants == {"renderer", "lib2"}

\* One event of the history.
Ev(ev, arg, by) == [ev |-> ev, arg |-> arg, by |-> by]

\* The history with one more event, while the window is open.
Record(l, e) == IF Len(l) < MaxLog THEN Append(l, e) ELSE l

Recording == Len(log) < MaxLog

\* ------------------------------------------------------------------------
\* The stack of activations

Frame(fn, pc) == [fn |-> fn, pc |-> pc]

Top == stack[Len(stack)]

Idle == stack = <<>>

At(fn, pc) == ~Idle /\ Top.fn = fn /\ Top.pc = pc

Goto(pc) == [stack EXCEPT ![Len(stack)].pc = pc]

Pop == SubSeq(stack, 1, Len(stack) - 1)

\* Activations in which the user callback is executing.
InCallback == {i \in 1..Len(stack) : stack[i].pc = "in_cb"}

\* ------------------------------------------------------------------------
\* RefCell<callback>

\* RefCell::borrow_mut / try_borrow_mut().unwrap(): granted only when no
\* borrow is live, a panic otherwise.
CanBorrowMutUnchecked == TRUE

CanBorrowMut == borrows = 0

\* A panic (wasm: abort) or a thrown JS exception ends the panicking
\* activation without running its destructors, up to the host call that
\* entered it: the event loop for an activation the host started, and
\* dispatchEvent for a nested listener, which reports the exception and
\* returns to the callback that called it.
Abort(by) ==
    /\ stack' = Pop
    /\ log' = Record(log, Ev("panic", FALSE, by))

\* ------------------------------------------------------------------------
\* render_loop

\* callback(true), before anything is registered.
StartInitialCallback ==
    /\ At("start", "begin")
    /\ stack' = Goto("in_cb")
    /\ log' = Record(log, Ev("call", TRUE, "start"))
    /\ UNCHANGED notSched
    /\ UNCHANGED <<variant, hostRaf, hostListen, borrows, rafPending,
                   listeners, result>>

\* The user callback returns to the activation that called it.  The RefMut
\* of a closure's call is a temporary, dropped as the statement ends.
CallbackReturn ==
    /\ ~Idle
    /\ Top.pc = "in_cb"
    /\ stack' = Goto("after_cb")
    /\ borrows' = IF Top.fn = "start" THEN borrows ELSE borrows - 1
    /\ log' = Record(log, Ev("ret", FALSE, Top.fn))
    /\ UNCHANGED notSched
    /\ UNCHANGED <<variant, hostRaf, hostListen, rafPending, listeners,
                   result>>

\* Where render_loop requests the first frame.
StartRequestAtEntry == "begin"

StartRequestAt == IF variant = "renderer" THEN "after_cb" ELSE "registered"

\* Where render_loop registers the resize listener.
StartListenAt == IF variant = "renderer" THEN "requested" ELSE "after_cb"

\* Where render_loop returns.
StartReturnAt == IF variant = "renderer" THEN "registered" ELSE "requested"

\* request_animation_frame(..) of render_loop: .expect() panics on failure.
StartRequestFrame ==
    /\ At("start", StartRequestAt)
    /\ IF hostRaf
       THEN /\ rafPending' = rafPending + 1
            /\ stack' = Goto("requested")
            /\ log' = Record(log, Ev("raf", FALSE, "start"))
            /\ result' = result
       ELSE /\ Abort("start")
            /\ result' = "panic"
            /\ rafPending' = rafPending
    /\ UNCHANGED notSched
    /\ UNCHANGED <<variant, hostRaf, hostListen, borrows, listeners>>

\* add_event_listener_with_callback("resize", ..): renderer.rs returns the
\* error with `?`, lib2.rs throws with expect_throw; cb.forget() on success.
StartAddListener ==
    /\ At("start", StartListenAt)
    /\ IF hostListen
       THEN /\ listeners' = listeners + 1
            /\ stack' = Goto("registered")
            /\ log' = Record(log, Ev("listen", FALSE, "start"))
            /\ result' = result
       ELSE /\ stack' = <<>>
            /\ log' = Record(log, Ev("fail", FALSE, "start"))
            /\ result' = IF variant = "renderer" THEN "err" ELSE "throw"
            /\ listeners' = listeners
    /\ UNCHANGED notSched
    /\ UNCHANGED <<variant, hostRaf, hostListen, borrows, rafPending>>

\* Ok(()) / the end of render_loop: control returns to the host.
StartReturn ==
    /\ At("start", StartReturnAt)
    /\ stack' = <<>>
    /\ result' = "ok"
    /\ log' = Record(log, Ev("ok", FALSE, "start"))
    /\ UNCHANGED notSched
    /\ UNCHANGED <<variant, hostRaf, hostListen, borrows, rafPending,
                   listeners>>

\* ------------------------------------------------------------------------
\* The host's event loop

\* The host delivers a requested animation frame: the request is consumed
\* and the frame closure starts.
HostDeliverFrame ==
    /\ Idle
    /\ rafPending > 0
    /\ rafPending' = rafPending - 1
    /\ stack' = <<Frame("frame", "begin")>>
    /\ log' = Record(log, Ev("frame", FALSE, "host"))
    /\ UNCHANGED notSched
    /\ UNCHANGED <<variant, hostRaf, hostListen, borrows, listeners, result>>

\* The host delivers a resize event to the registered listener.
HostDeliverResize ==
    /\ Idle
    /\ listeners > 0
    /\ stack' = <<Frame("resize", "begin")>>
    /\ log' = Record(log, Ev("resize", FALSE, "host"))
    /\ UNCHANGED notSched
    /\ UNCHANGED <<variant, hostRaf, hostListen, borrows, rafPending,
                   listeners, result>>

\* The user callback dispatches a resize event synchronously while it runs
\* (dispatchEvent): the listener is entered on top of the running callback.
CallbackDispatchesResize ==
    /\ ~Idle
    /\ Top.pc = "in_cb"
    /\ listeners > 0
    /\ Len(stack) < MaxDepth
    /\ stack' = Append(stack, Frame("resize", "begin"))
    /\ log' = Record(log, Ev("resize", FALSE, "callback"))
    /\ UNCHANGED notSched
    /\ UNCHANGED <<variant, hostRaf, hostListen, borrows, rafPending,
                   listeners, result>>

\* ------------------------------------------------------------------------
\* The closures

\* The argument the frame closure passes to the callback.
FrameArg == FALSE

\* The argument the resize closure passes to the callback.
ResizeArgFalse == FALSE

ResizeArg == TRUE

\* A closure borrows the callback mutably and calls it.
Invoke(fn, arg) ==
    /\ At(fn, "begin")
    /\ IF CanBorrowMut
       THEN /\ borrows' = borrows + 1
            /\ stack' = Goto("in_cb")
            /\ log' = Record(log, Ev("call", arg, fn))
       ELSE /\ Abort(fn)
            /\ borrows' = borrows
    /\ UNCHANGED notSched
    /\ UNCHANGED <<variant, hostRaf, hostListen, rafPending, listeners,
                   result>>

\* The frame closure: ref1.borrow_mut()(false).
FrameInvoke == Invoke("frame", FrameArg)

\* The resize closure: ref2.borrow_mut()(true).
ResizeInvoke == Invoke("resize", ResizeArg)

\* Frame requests the frame closure makes once the callback has returned.
FrameRequestsTwice == 1 + 1

FrameRequestsNone == 1 - 1

FrameRequests == 1

\* The frame closure: request_animation_frame(..) for the next frame, then
\* return to the host.
FrameRerequest ==
    /\ At("frame", "after_cb")
    /\ IF hostRaf
       THEN /\ rafPending' = rafPending + FrameRequests
            /\ stack' = Pop
            /\ log' = Record(log, Ev("raf", FALSE, "frame"))
       ELSE /\ Abort("frame")
            /\ rafPending' = rafPending
    /\ UNCHANGED notSched
    /\ UNCHANGED <<variant, hostRaf, hostListen, borrows, listeners, result>>

\* The resize closure returns.
ResizeReturnRequesting ==
    /\ At("resize", "after_cb")
    /\ stack' = Pop
    /\ rafPending' = rafPending + 1
    /\ log' = Record(log, Ev("raf", FALSE, "resize"))
    /\ UNCHANGED notSched
    /\ UNCHANGED <<variant, hostRaf, hostListen, borrows, listeners, result>>

ResizeReturn ==
    /\ At("resize", "after_cb")
    /\ stack' = Pop
    /\ log' = Record(log, Ev("done", FALSE, "resize"))
    /\ UNCHANGED notSched
    /\ UNCHANGED <<variant, hostRaf, hostListen, borrows, rafPending,
                   listeners, result>>

\* ------------------------------------------------------------------------
\* Shader::new

AttrNames == {"pos", "color"}

UniformNames == {"projection", "light"}

\* The GPU objects one construction can create.
Objects == {"vert_shader", "frag_shader", "program"}

\* Sequences over S of length at most n.
SeqUpTo(S, n) == UNION {[1..k -> S] : k \in 0..n}

\* `x as u32` of an i32, as the two 16-bit halves of the 32-bit pattern.
U32(x) == [hi |-> (x \div 65536) % 65536, lo |-> x % 65536]

\* The slot the linker gave a declared attribute.
AttribSlot(name) == IF name = "pos" THEN 0 ELSE 1

\* WebGl2RenderingContext::get_attrib_location: -1 when the program has no
\* such attribute.
GetAttribLocation(name) == IF name \in declAttrs THEN AttribSlot(name) ELSE -1

\* WebGl2RenderingContext::get_uniform_location: None when the program has
\* no such uniform.
GetUniformLocation(name) ==
    IF name \in declUniforms THEN <<"Some", name>> ELSE <<"None">>

\* HashMap::insert: a later entry for a key replaces the earlier one.
Insert(m, k, v) == [n \in DOMAIN m \cup {k} |-> IF n = k THEN v ELSE m[n]]

EmptyMap == [n \in {} |-> 0]

Call(op, obj) == <<op, obj>>

\* or_throw on an Err, or a panic: Shader::new is left at once; nothing
\* that was created is deleted.
ShaderFails(how) ==
    /\ shPc' = "failed"
    /\ shResult' = how

\* compile_shader(context, stage, source).or_throw()
CompileShader(obj, statusOk, next) ==
    \E created \in BOOLEAN :
        IF ~created
        THEN /\ ShaderFails("throw")
             /\ glLog' = Append(glLog, Call("create_shader_none", obj))
             /\ gl' = gl
        ELSE /\ gl' = [gl EXCEPT ![obj] = "live"]
             /\ glLog' = glLog \o <<Call("create_shader", obj),
                                    Call("compile_shader", obj)>>
             /\ IF statusOk
                THEN shPc' = next /\ shResult' = shResult
                ELSE ShaderFails("throw")

CompileVertex ==
    /\ shPc = "vert"
    /\ CompileShader("vert_shader", vertOk, "frag")
    /\ UNCHANGED notShader
    /\ UNCHANGED lookup
    /\ UNCHANGED <<vertOk, fragOk, linkOk, declAttrs, declUniforms,
                   attributes, uniforms, shIdx, attribute_locations,
                   uniform_locations>>

CompileFragment ==
    /\ shPc = "frag"
    /\ CompileShader("frag_shader", fragOk, "link")
    /\ UNCHANGED notShader
    /\ UNCHANGED lookup
    /\ UNCHANGED <<vertOk, fragOk, linkOk, declAttrs, declUniforms,
                   attributes, uniforms, shIdx, attribute_locations,
                   uniform_locations>>

\* link_program(context, &vert_shader, &frag_shader).or_throw()
LinkProgram ==
    /\ shPc = "link"
    /\ \E created \in BOOLEAN :
        IF ~created
        THEN /\ ShaderFails("throw")
             /\ glLog' = Append(glLog, Call("create_program_none", "program"))
             /\ gl' = gl
        ELSE /\ gl' = [gl EXCEPT !["program"] = "live"]
             /\ glLog' = glLog \o <<Call("create_program", "program"),
                                    Call("attach_shader", "vert_shader"),
                                    Call("attach_shader", "frag_shader"),
                                    Call("link_program", "program")>>
             /\ IF linkOk
                THEN shPc' = "delete_vert" /\ shResult' = shResult
                ELSE ShaderFails("throw")
    /\ UNCHANGED notShader
    /\ UNCHANGED lookup
    /\ UNCHANGED <<vertOk, fragOk, linkOk, declAttrs, declUniforms,
                   attributes, uniforms, shIdx, attribute_locations,
                   uniform_locations>>

\* context.delete_shader(Some(&shader))
DeleteShader(obj, next) ==
    /\ gl' = [gl EXCEPT ![obj] = "deleted"]
    /\ glLog' = Append(glLog, Call("delete_shader", obj))
    /\ shPc' = next

DeleteVertex ==
    /\ shPc = "delete_vert"
    /\ DeleteShader("vert_shader", "delete_frag")
    /\ UNCHANGED notShader
    /\ UNCHANGED lookup
    /\ UNCHANGED <<vertOk, fragOk, linkOk, declAttrs, declUniforms,
                   attributes, uniforms, shIdx, attribute_locations,
                   uniform_locations, shResult>>

DeleteFragmentSkipped ==
    /\ shPc = "delete_frag"
    /\ shPc' = "attrs"
    /\ UNCHANGED notShader
    /\ UNCHANGED lookup
    /\ UNCHANGED <<vertOk, fragOk, linkOk, declAttrs, declUniforms,
                   attributes, uniforms, shIdx, gl, glLog,
                   attribute_locations, uniform_locations, shResult>>

DeleteFragment ==
    /\ shPc = "delete_frag"
    /\ DeleteShader("frag_shader", "attrs")
    /\ UNCHANGED notShader
    /\ UNCHANGED lookup
    /\ UNCHANGED <<vertOk, fragOk, linkOk, declAttrs, declUniforms,
                   attributes, uniforms, shIdx, attribute_locations,
                   uniform_locations, shResult>>

\* attribute_locations: one (name, get_attrib_location(..) as u32) entry per
\* element of `attributes`, in order.
ResolveAttribute ==
    /\ shPc = "attrs"
    /\ shIdx <= Len(attributes)
    /\ attribute_locations' =
          Insert(attribute_locations, attributes[shIdx],
                 U32(GetAttribLocation(attributes[shIdx])))
    /\ glLog' = Append(glLog, Call("get_attrib_location", attributes[shIdx]))
    /\ shIdx' = shIdx + 1
    /\ UNCHANGED notShader
    /\ UNCHANGED lookup
    /\ UNCHANGED <<vertOk, fragOk, linkOk, declAttrs, declUniforms,
                   attributes, uniforms, shPc, gl, uniform_locations,
                   shResult>>

\* The attribute iterator is exhausted: uniform_locations is built next.
AttributesCollected ==
    /\ shPc = "attrs"
    /\ shIdx > Len(attributes)
    /\ shPc' = "uniforms"
    /\ shIdx' = 1
    /\ UNCHANGED notShader
    /\ UNCHANGED lookup
    /\ UNCHANGED <<vertOk, fragOk, linkOk, declAttrs, declUniforms,
                   attributes, uniforms, gl, glLog, attribute_locations,
                   uniform_locations, shResult>>

\* uniform_locations: one (name, get_uniform_location(..).unwrap()) entry
\* per element of `uniforms`; unwrap panics on None.
ResolveUniform ==
    /\ shPc = "uniforms"
    /\ shIdx <= Len(uniforms)
    /\ glLog' = Append(glLog, Call("get_uniform_location", uniforms[shIdx]))
    /\ LET loc == GetUniformLocation(uniforms[shIdx]) IN
         IF loc[1] = "Some"
         THEN /\ uniform_locations' =
                    Insert(uniform_locations, uniforms[shIdx], loc[2])
              /\ shIdx' = shIdx + 1
              /\ UNCHANGED <<shPc, shResult>>
         ELSE /\ ShaderFails("panic")
              /\ UNCHANGED <<uniform_locations, shIdx>>
    /\ UNCHANGED notShader
    /\ UNCHANGED lookup
    /\ UNCHANGED <<vertOk, fragOk, linkOk, declAttrs, declUniforms,
                   attributes, uniforms, gl, attribute_locations>>

\* Shader { attribute_locations, uniform_locations, program } is returned.
ShaderReturn ==
    /\ shPc = "uniforms"
    /\ shIdx > Len(uniforms)
    /\ shPc' = "done"
    /\ shResult' = "ok"
    /\ UNCHANGED notShader
    /\ UNCHANGED lookup
    /\ UNCHANGED <<vertOk, fragOk, linkOk, declAttrs, declUniforms,
                   attributes, uniforms, shIdx, gl, glLog,
                   attribute_locations, uniform_locations>>

\* ------------------------------------------------------------------------
\* Shader::find_attr, Shader::find_uniform

NoLookup == [fn |-> "none", name |-> "", out |-> <<"none">>]

\* HashMap's Index: the value of a key that is present, a panic otherwise.
MapIndex(m, k) == IF k \in DOMAIN m THEN <<"Some", m[k]>> ELSE <<"panic">>

FindAttrInserting ==
    /\ shPc = "done"
    /\ \E name \in AttrNames :
          /\ attribute_locations' =
                IF name \in DOMAIN attribute_locations
                THEN attribute_locations
                ELSE Insert(attribute_locations, name, U32(0))
          /\ lookup' = [fn |-> "find_attr", name |-> name,
                        out |-> MapIndex(attribute_locations', name)]
    /\ UNCHANGED notShader
    /\ UNCHANGED <<vertOk, fragOk, linkOk, declAttrs, declUniforms,
                   attributes, uniforms, shPc, shIdx, gl, glLog,
                   uniform_locations, shResult>>

\* find_attr(&self, name): self.attribute_locations[name]
FindAttr ==
    /\ shPc = "done"
    /\ \E name \in AttrNames :
          lookup' = [fn |-> "find_attr", name |-> name,
                     out |-> MapIndex(attribute_locations, name)]
    /\ UNCHANGED notShader
    /\ UNCHANGED <<vertOk, fragOk, linkOk, declAttrs, declUniforms,
                   attributes, uniforms, shPc, shIdx, gl, glLog,
                   attribute_locations, uniform_locations, shResult>>

\* find_uniform(&self, name): &self.uniform_locations[name]
FindUniform ==
    /\ shPc = "done"
    /\ \E name \in UniformNames :
          lookup' = [fn |-> "find_uniform", name |-> name,
                     out |-> MapIndex(uniform_locations, name)]
    /\ UNCHANGED notShader
    /\ UNCHANGED <<vertOk, fragOk, linkOk, declAttrs, declUniforms,
                   attributes, uniforms, shPc, shIdx, gl, glLog,
                   attribute_locations, uniform_locations, shResult>>

\* ------------------------------------------------------------------------
\* VBO and VAO (renderer.rs 153-282, lib2.rs 109-165)

Kinds == {"ARRAY_BUFFER", "ELEMENT_ARRAY_BUFFER"}

Hints == {"STATIC_DRAW", "DYNAMIC_DRAW"}

\* The attribute slots of the context that the shader's names resolve to.
Slots == {AttribSlot(n) : n \in AttrNames}

\* The record type T of a VBO<T>: two fields of one 32-bit value each, as
\* lib2.rs's Vertex is two fields of 32-bit values.
Fields == {"pos", "color"}

\* The values the fields take here: two for pos, the field lib2.rs 326-327
\* writes, and one for color.
PosValues == {1, 3}

ColorValues == {2}

RecordValues == [pos : PosValues, color : ColorValues]

\* The host sequences: a Vec<T> of up to MaxRecords records, any record any
\* number of times.
HostSeqs == SeqUpTo(RecordValues, MaxRecords)

\* size_of::<T>()
SizeOfRecord == 8

\* align_of::<T>()
RecordAlign == 4

\* offset_of!(T, member)
OffsetOf(member) == IF member = "pos" THEN 0 ELSE 4

\* The bytes of one 32-bit value, little-endian.
WordBytes(v) ==
    <<v % 256, (v \div 256) % 256, (v \div 65536) % 256,
      (v \div 16777216) % 256>>

\* The bytes of one record as they lie in memory.
RecordBytes(r) == WordBytes(r.pos) \o WordBytes(r.color)

\* The raw bytes of a host sequence of records.
RECURSIVE RawBytes(_)
RawBytes(buffer) ==
    IF buffer = <<>> THEN <<>>
    ELSE RecordBytes(Head(buffer)) \o RawBytes(Tail(buffer))

\* The address of a Vec<T>'s storage: aligned for T and no better.
VecAddr == RecordAlign

\* slice::align_to::<U>() over the bytes at addr, for a U of the given
\* size and alignment: <<prefix, middle, suffix>>.
AlignTo(bytes, addr, usize, ualign) ==
    LET skip == (ualign - (addr % ualign)) % ualign
    IN  IF skip > Len(bytes) THEN <<bytes, <<>>, <<>> >>
        ELSE LET rest == Len(bytes) - skip
                 mid  == (rest \div usize) * usize
             IN  << SubSeq(bytes, 1, skip),
                    SubSeq(bytes, skip + 1, skip + mid),
                    SubSeq(bytes, skip + mid + 1, Len(bytes)) >>

\* The size and alignment of the view's unit: u8 in renderer.rs, f32 in
\* lib2.rs.
ViewUnit == IF bufVariant = "renderer" THEN 1 ELSE 4

\* Uint8Array::view(self.buffer.as_slice().align_to::<u8>().1), and
\* Float32Array::view(self.source.as_slice().align_to::<f32>().1)
ViewBytes(buffer) ==
    AlignTo(RawBytes(buffer), VecAddr, ViewUnit, ViewUnit)[2]

\* The target update and bind name: self.buffer_type in renderer.rs,
\* ARRAY_BUFFER in lib2.rs.
TargetOf(v) ==
    IF bufVariant = "renderer" THEN v.buffer_type ELSE "ARRAY_BUFFER"

\* The usage hint update gives: self.access_type in renderer.rs,
\* STATIC_DRAW in lib2.rs.
UsageOf(v) ==
    IF bufVariant = "renderer" THEN v.access_type ELSE "STATIC_DRAW"

\* bindBuffer(target, h): ARRAY_BUFFER is context state, ELEMENT_ARRAY_BUFFER
\* is state of the bound vertex array.
ArrayAfterBind(target, h) ==
    IF target = "ARRAY_BUFFER" THEN h ELSE glArray

ElementAfterBind(target, h) ==
    IF target = "ELEMENT_ARRAY_BUFFER"
    THEN [glElement EXCEPT ![glVao] = h]
    ELSE glElement

BoundTo(target, arr, elem) ==
    IF target = "ARRAY_BUFFER" THEN arr ELSE elem[glVao]

\* A store that keeps what the buffer held and adds the new bytes.
BufferDataAppending(old, new) == old \o new

\* bufferData replaces the whole store of the buffer.
BufferData(old, new) == new

\* bufferData(target, bytes, usage) writes the buffer bound to target, and
\* is an error without effect when none is bound.
Upload(data, h, bytes, usage) ==
    IF h = 0 THEN data
    ELSE [data EXCEPT ![h] = [data  |-> BufferData(@.data, bytes),
                              usage |-> usage]]

\* VBO::update on the struct v, over the buffer stores data.
Sync(v, data) ==
    LET target == TargetOf(v)
        arr    == ArrayAfterBind(target, v.handle)
        elem   == ElementAfterBind(target, v.handle)
    IN  /\ glArray' = arr
        /\ glElement' = elem
        /\ glData' = Upload(data, BoundTo(target, arr, elem),
                            ViewBytes(v.buffer), UsageOf(v))

\* A buffer the context has just created.
EmptyStore == [data |-> <<>>, usage |-> "none"]

\* The attribute pointer of a slot nobody has set.
NoPointer == [buffer |-> 0, size |-> 4, type |-> "FLOAT",
              normalized |-> FALSE, stride |-> 0, offset |-> 0]

NoLen == [vbo |-> 0, n |-> 0]

\* ctx.create_vertex_array().expect_throw(..)
VaoCreate ==
    /\ vaoPc = "create"
    /\ \E ok \in BOOLEAN :
          IF ok
          THEN /\ glVaosMade' = glVaosMade + 1
               /\ vaoHandle' = glVaosMade + 1
               /\ glElement' = [a \in 0..(glVaosMade + 1) |->
                                   IF a <= glVaosMade THEN glElement[a] ELSE 0]
               /\ glAttrib' = [a \in 0..(glVaosMade + 1) |->
                                  IF a <= glVaosMade THEN glAttrib[a]
                                  ELSE [s \in Slots |-> NoPointer]]
               /\ glEnabled' = [a \in 0..(glVaosMade + 1) |->
                                   IF a <= glVaosMade THEN glEnabled[a] ELSE {}]
               /\ vaoPc' = "bind"
          ELSE /\ vaoPc' = "failed"
               /\ UNCHANGED <<glVaosMade, vaoHandle, glElement, glAttrib,
                              glEnabled>>
    /\ UNCHANGED notBuf
    /\ UNCHANGED <<bufVariant, specs, vbos, glBuffersMade, glVao, glArray,
                   glData, lenResult, synced>>

\* ctx.bind_vertex_array(Some(&handle))
VaoBind ==
    /\ vaoPc = "bind"
    /\ glVao' = vaoHandle
    /\ vaoPc' = "buffers"
    /\ UNCHANGED notBuf
    /\ UNCHANGED <<bufVariant, specs, vaoHandle, vbos, glVaosMade,
                   glBuffersMade, glArray, glElement, glData, glAttrib,
                   glEnabled, lenResult, synced>>

\* The spec that the buffers are built from, last first.
SpecForReversed(i) == specs[Len(specs) + 1 - i]

\* The i-th VBO::new of VAO_new is given the i-th spec.
SpecFor(i) == specs[i]

\* VBO::new: renderer.rs 204-213 creates the buffer and calls update;
\* lib2.rs 115-120 creates the buffer and uploads nothing.
VboNew ==
    /\ vaoPc = "buffers"
    /\ Len(vbos) < Len(specs)
    /\ \E ok \in BOOLEAN :
          IF ok
          THEN LET sp == SpecFor(Len(vbos) + 1)
                   h  == glBuffersMade + 1
                   v  == [buffer |-> sp.buffer, handle |-> h,
                          buffer_type |-> sp.buffer_type,
                          access_type |-> sp.access_type]
                   data == [b \in 1..h |->
                               IF b < h THEN glData[b] ELSE EmptyStore]
               IN  /\ glBuffersMade' = h
                   /\ vbos' = Append(vbos, v)
                   /\ IF bufVariant = "renderer"
                      THEN /\ Sync(v, data)
                           /\ synced' = Append(synced,
                                  [done |-> TRUE, bytes |-> RawBytes(v.buffer),
                                   fresh |-> 1])
                      ELSE /\ glData' = data
                           /\ synced' = Append(synced,
                                  [done |-> FALSE, bytes |-> <<>>, fresh |-> 0])
                           /\ UNCHANGED <<glArray, glElement>>
                   /\ UNCHANGED vaoPc
          ELSE /\ vaoPc' = "failed"
               /\ UNCHANGED <<glBuffersMade, vbos, glArray, glElement,
                              glData, synced>>
    /\ UNCHANGED notBuf
    /\ UNCHANGED <<bufVariant, specs, vaoHandle, glVaosMade, glVao,
                   glAttrib, glEnabled, lenResult>>

\* VAO_new returns the VAO struct once every spec has its buffer; the
\* vectors of the specs were moved into the buffers (Some($vbo)), and only
\* the buffers hold records from here on.
VaoBuilt ==
    /\ vaoPc = "buffers"
    /\ Len(vbos) = Len(specs)
    /\ vaoPc' = "built"
    /\ specs' = [i \in 1..Len(specs) |-> [specs[i] EXCEPT !.buffer = <<>>]]
    /\ UNCHANGED notBuf
    /\ UNCHANGED <<bufVariant, vaoHandle, vbos, glVaosMade,
                   glBuffersMade, glVao, glArray, glElement, glData,
                   glAttrib, glEnabled, lenResult, synced>>

\* VBO::update(&self, ctx) on the i-th buffer.
Update(i) ==
    /\ vaoPc = "built"
    /\ i \in 1..Len(vbos)
    /\ Sync(vbos[i], glData)
    /\ synced' = [synced EXCEPT
                     ![i] = [done |-> TRUE, bytes |-> RawBytes(vbos[i].buffer),
                             fresh |-> IF @.fresh = 0 THEN 1 ELSE 2]]
    /\ UNCHANGED notBuf
    /\ UNCHANGED <<bufVariant, specs, vaoPc, vaoHandle, vbos, glVaosMade,
                   glBuffersMade, glVao, glAttrib, glEnabled, lenResult>>

UpdateCall == \E i \in 1..MaxBuffers : Update(i)

\* A host mutation that uploads as it writes.
HostMutateSyncing(i) ==
    /\ vaoPc = "built"
    /\ i \in 1..Len(vbos)
    /\ \E b \in HostSeqs \ {vbos[i].buffer} :
          /\ vbos' = [vbos EXCEPT ![i].buffer = b]
          /\ Sync([vbos[i] EXCEPT !.buffer = b], glData)
    /\ synced' = [synced EXCEPT ![i].fresh = 0]
    /\ UNCHANGED notBuf
    /\ UNCHANGED <<bufVariant, specs, vaoPc, vaoHandle, glVaosMade,
                   glBuffersMade, glVao, glAttrib, glEnabled, lenResult>>

\* The owner writes the public host sequence (`pub buffer: Vec<T>`): a
\* write of a field in place as lib2.rs 326-327 writes source[0] and
\* source[1], a push, a pop, or any other change to another sequence.
HostMutate(i) ==
    /\ vaoPc = "built"
    /\ i \in 1..Len(vbos)
    /\ \E b \in HostSeqs \ {vbos[i].buffer} :
          vbos' = [vbos EXCEPT ![i].buffer = b]
    /\ synced' = [synced EXCEPT ![i].fresh = 0]
    /\ UNCHANGED notBuf
    /\ UNCHANGED <<bufVariant, specs, vaoPc, vaoHandle, glVaosMade,
                   glBuffersMade, glVao, glArray, glElement, glData,
                   glAttrib, glEnabled, lenResult>>

HostMutateCall == \E i \in 1..MaxBuffers : HostMutate(i)

\* The number of records the GPU holds.
VBO_lenSynced(v) == Len(glData[v.handle].data) \div SizeOfRecord

\* VBO::len(&self): self.buffer.len() (self.source.len() in lib2.rs)
VBO_len(v) == Len(v.buffer)

LenCall ==
    /\ vaoPc = "built"
    /\ \E i \in 1..Len(vbos) :
          lenResult' = [vbo |-> i, n |-> VBO_len(vbos[i])]
    /\ UNCHANGED notBuf
    /\ UNCHANGED <<bufVariant, specs, vaoPc, vaoHandle, vbos, glVaosMade,
                   glBuffersMade, glVao, glArray, glElement, glData,
                   glAttrib, glEnabled, synced>>

\* Bytes of one component of a WebGL type.
TypeSize(type) == IF type = "FLOAT" THEN 4 ELSE 1

\* vertexAttribPointer(addr, size, type, normalized, stride, offset) with
\* arr bound to ARRAY_BUFFER: the slot of the bound vertex array takes the
\* layout and arr; the call is an error without effect when stride or
\* offset is no multiple of the type's size, or when no buffer is bound and
\* offset is not 0.
VertexAttribPointer(arr, addr, size, type, normalized, stride, offset) ==
    IF \/ offset % TypeSize(type) # 0
       \/ stride % TypeSize(type) # 0
       \/ (arr = 0 /\ offset # 0)
    THEN glAttrib
    ELSE [glAttrib EXCEPT ![glVao][addr] =
             [buffer |-> arr, size |-> size, type |-> type,
              normalized |-> normalized, stride |-> stride,
              offset |-> offset]]

\* VBO::bind(&self, ctx, addr, size, type_, normalized, offset) on the
\* i-th buffer.
Bind(i, addr, size, type, normalized, offset) ==
    /\ vaoPc = "built"
    /\ i \in 1..Len(vbos)
    /\ LET target == TargetOf(vbos[i])
           arr    == ArrayAfterBind(target, vbos[i].handle)
       IN  /\ glArray' = arr
           /\ glElement' = ElementAfterBind(target, vbos[i].handle)
           /\ glAttrib' = VertexAttribPointer(arr, addr, size, type,
                              normalized, SizeOfRecord, offset)
    /\ glEnabled' = [glEnabled EXCEPT ![glVao] = @ \cup {addr}]
    /\ UNCHANGED notBuf
    /\ UNCHANGED <<bufVariant, specs, vaoPc, vaoHandle, vbos, glVaosMade,
                   glBuffersMade, glVao, glData, lenResult, synced>>

\* The layouts the callers of bind give.
Sizes == {1, 2}

Types == {"FLOAT"}

Offsets == {0, 4}

BindCall ==
    \E i \in 1..MaxBuffers, addr \in Slots, size \in Sizes, type \in Types,
       offset \in Offsets :
          Bind(i, addr, size, type, FALSE, offset)

\* VBO_bind!(vbo, ctx, shader, DataClass, member, sz, type): the slot is
\* shader.find_attr("member"), the offset is offset_of!(DataClass, member).
BindField(i, member, size, type) ==
    Bind(i, AttribSlot(member), size, type, FALSE, OffsetOf(member))

BindFieldCall ==
    \E i \in 1..MaxBuffers, member \in Fields :
          BindField(i, member, 1, "FLOAT")

\* One such call site, for the field pos (as lib2.rs 244-245 binds
\* offset_of!(Vertex, pos)).
BindPosition == \E i \in 1..MaxBuffers : BindField(i, "pos", 1, "FLOAT")


\* VAO::activate(&self, ctx): ctx.bind_vertex_array(Some(&self.handle))
Activate ==
    /\ vaoPc = "built"
    /\ glVao' = vaoHandle
    /\ UNCHANGED notBuf
    /\ UNCHANGED <<bufVariant, specs, vaoPc, vaoHandle, vbos, glVaosMade,
                   glBuffersMade, glArray, glElement, glData, glAttrib,
                   glEnabled, lenResult, synced>>

\* ------------------------------------------------------------------------
\* The renderers' init and draws (lib.rs 110-228 and 296-383, lib2.rs
\* 227-362)

Renderers == {"lib.Renderer", "lib.Renderer2", "lib2.Renderer"}

\* The steps of init and render_loop up to the return to the host, in the
\* order of the code: lib.rs 296-317 with 371-382, lib.rs 141-152 with
\* 210-228, lib2.rs 230-264 with 336-362.
Order(r) ==
    IF r = "lib.Renderer"
    THEN <<"buffer", "listen", "update", "vaoCreate", "vaoBind",
           "requestFrame">>
    ELSE IF r = "lib.Renderer2"
    THEN <<"buffer", "vaoCreate", "vaoBind", "update", "listen",
           "requestFrame">>
    ELSE <<"vaoCreate", "vaoBind", "buffer", "bindPosition", "bindColor",
           "update", "firstRender", "listen", "requestFrame">>

\* Where the renderer is; "stopped" when none of its code runs: before
\* init, after a step that threw, and after the return to the host.
Step ==
    IF rPc \in 1..Len(Order(rVariant)) THEN Order(rVariant)[rPc]
    ELSE "stopped"

\* The attributes the renderer's shader reads.
UsedNames(r) ==
    IF r = "lib2.Renderer" THEN {"position", "vertexColor"} ELSE {"position"}

\* An f32 as its sign bit and the 31 bits below it; the values of the
\* vertices are -0.7, 0.7, 0.0 and 1.0.
F32_m07 == [neg |-> TRUE, mag |-> 1060320051]

F32_07 == [neg |-> FALSE, mag |-> 1060320051]

F32_0 == [neg |-> FALSE, mag |-> 0]

F32_1 == [neg |-> FALSE, mag |-> 1065353216]

\* The four bytes of an f32, little-endian: the sign is the top bit of the
\* last.
F32Bytes(f) ==
    LET b == WordBytes(f.mag)
    IN  <<b[1], b[2], b[3], b[4] + (IF f.neg THEN 128 ELSE 0)>>

\* The three vertices the renderers are built with: lib.rs's Vertex is a
\* Position of three f32, lib2.rs's a Position and a Color of three f32
\* each.
RenderVertices(r) ==
    IF r = "lib2.Renderer"
    THEN <<[pos |-> <<F32_m07, F32_m07, F32_0>>,
            color |-> <<F32_1, F32_0, F32_0>>],
           [pos |-> <<F32_07, F32_m07, F32_0>>,
            color |-> <<F32_0, F32_1, F32_0>>],
           [pos |-> <<F32_0, F32_07, F32_0>>,
            color |-> <<F32_0, F32_0, F32_1>>]>>
    ELSE <<[pos |-> <<F32_m07, F32_m07, F32_0>>],
           [pos |-> <<F32_07, F32_m07, F32_0>>],
           [pos |-> <<F32_0, F32_07, F32_0>>]>>

\* The f32 fields of a vertex in the order they lie in memory.
VertexWords(v) == IF "color" \in DOMAIN v THEN v.pos \o v.color ELSE v.pos

RECURSIVE WordsBytes(_)
WordsBytes(ws) ==
    IF ws = <<>> THEN <<>>
    ELSE F32Bytes(Head(ws)) \o WordsBytes(Tail(ws))

\* The raw bytes of a sequence of vertices.
RECURSIVE VertexBytes(_)
VertexBytes(vs) ==
    IF vs = <<>> THEN <<>>
    ELSE WordsBytes(VertexWords(Head(vs))) \o VertexBytes(Tail(vs))

\* Float32Array::view(vertices.as_slice().align_to::<f32>().1)
VertexView(vs) == AlignTo(VertexBytes(vs), VecAddr, 4, 4)[2]

\* (timer as f32).div(30.).sin() for the timers a run reaches: positive,
\* with these 31 bits.
SinOf(timer) ==
    [neg |-> FALSE,
     mag |-> <<1023967760, 1032351398, 1036809591, 1040720144,
               1042931885>>[timer]]

\* The negation of an f32 flips its sign bit.
F32Neg(f) == [f EXCEPT !.neg = ~@]

\* The vertices the renderer holds now: self.vbos[0].source in lib2.rs,
\* self.vertices in lib.rs.
VerticesNow ==
    IF rVariant = "lib2.Renderer" THEN vbos[1].buffer
    ELSE RenderVertices(rVariant)

\* size_of::<Vertex>(): three f32 in lib.rs, six in lib2.rs.
VertexStride(r) == IF r = "lib2.Renderer" THEN 24 ELSE 12

\* offset_of!(Vertex, pos) and offset_of!(Vertex, color)
VertexOffset(name) == IF name = "position" THEN 0 ELSE 12

\* lib.rs's vbo(): `if dynamic {STATIC_DRAW} else {DYNAMIC_DRAW}`
VboUsage(dynamic) == IF dynamic THEN "STATIC_DRAW" ELSE "DYNAMIC_DRAW"

\* create_buffer().expect_throw(..); lib.rs then binds it to ARRAY_BUFFER,
\* lib2.rs's VBO::new keeps it with the vertices.
RCreateBuffer ==
    /\ Step = "buffer"
    /\ \E ok \in BOOLEAN :
          IF ok
          THEN LET h == glBuffersMade + 1
               IN  /\ glBuffersMade' = h
                   /\ glData' = [b \in 1..h |->
                                    IF b < h THEN glData[b] ELSE EmptyStore]
                   /\ rBuffer' = h
                   /\ IF rVariant = "lib2.Renderer"
                      THEN /\ vbos' = <<[buffer |-> RenderVertices(rVariant),
                                         handle |-> h,
                                         buffer_type |-> "ARRAY_BUFFER",
                                         access_type |-> "STATIC_DRAW"]>>
                           /\ synced' = <<[done |-> FALSE, bytes |-> <<>>,
                                           fresh |-> 0]>>
                           /\ UNCHANGED glArray
                      ELSE /\ glArray' = h
                           /\ UNCHANGED <<vbos, synced>>
                   /\ rPc' = rPc + 1
          ELSE /\ rPc' = 0
               /\ UNCHANGED <<glBuffersMade, glData, rBuffer, vbos, synced,
                              glArray>>
    /\ UNCHANGED notRender
    /\ UNCHANGED <<bufVariant, specs, vaoPc, vaoHandle, glVaosMade, glVao,
                   glElement, glAttrib, glEnabled, lenResult>>
    /\ UNCHANGED <<rVariant, rSlots, rListening, rRaf, drawLog>>

\* create_vertex_array().expect_throw(..)
RCreateVao ==
    /\ Step = "vaoCreate"
    /\ \E ok \in BOOLEAN :
          IF ok
          THEN /\ glVaosMade' = glVaosMade + 1
               /\ vaoHandle' = glVaosMade + 1
               /\ glElement' = [a \in 0..(glVaosMade + 1) |->
                                   IF a <= glVaosMade THEN glElement[a] ELSE 0]
               /\ glAttrib' = [a \in 0..(glVaosMade + 1) |->
                                  IF a <= glVaosMade THEN glAttrib[a]
                                  ELSE [s \in Slots |-> NoPointer]]
               /\ glEnabled' = [a \in 0..(glVaosMade + 1) |->
                                   IF a <= glVaosMade THEN glEnabled[a] ELSE {}]
               /\ rPc' = rPc + 1
          ELSE /\ rPc' = 0
               /\ UNCHANGED <<glVaosMade, vaoHandle, glElement, glAttrib,
                              glEnabled>>
    /\ UNCHANGED notRender
    /\ UNCHANGED <<bufVariant, specs, vaoPc, vbos, glBuffersMade, glVao,
                   glArray, glData, lenResult, synced>>
    /\ UNCHANGED <<rVariant, rSlots, rBuffer, rListening, rRaf, drawLog>>

\* bind_vertex_array(Some(&vao))
RBindVao ==
    /\ Step = "vaoBind"
    /\ glVao' = vaoHandle
    /\ rPc' = rPc + 1
    /\ UNCHANGED notRender
    /\ UNCHANGED <<bufVariant, specs, vaoPc, vaoHandle, vbos, glVaosMade,
                   glBuffersMade, glArray, glElement, glData, glAttrib,
                   glEnabled, lenResult, synced>>
    /\ UNCHANGED <<rVariant, rSlots, rBuffer, rListening, rRaf, drawLog>>

\* self.update(): in lib.rs vbo() uploads the vertices to the buffer bound
\* to ARRAY_BUFFER, points the slot of "position" at it and enables the
\* slot; in lib2.rs every VBO's update uploads its source.
RUpdate ==
    /\ Step = "update"
    /\ IF rVariant = "lib2.Renderer"
       THEN /\ glArray' = vbos[1].handle
            /\ glData' = Upload(glData, vbos[1].handle,
                                VertexView(vbos[1].buffer), "STATIC_DRAW")
            /\ synced' = [synced EXCEPT
                             ![1] = [done |-> TRUE,
                                     bytes |-> VertexView(vbos[1].buffer),
                                     fresh |-> 1]]
            /\ UNCHANGED <<glElement, glAttrib, glEnabled>>
       ELSE /\ glData' = Upload(glData, glArray, VertexView(VerticesNow),
                                VboUsage(FALSE))
            /\ glAttrib' = VertexAttribPointer(glArray, rSlots["position"],
                               3, "FLOAT", FALSE, VertexStride(rVariant),
                               VertexOffset("position"))
            /\ glEnabled' = [glEnabled EXCEPT
                                ![glVao] = @ \cup {rSlots["position"]}]
            /\ UNCHANGED <<glArray, glElement, synced>>
    /\ rPc' = rPc + 1
    /\ UNCHANGED notRender
    /\ UNCHANGED <<bufVariant, specs, vaoPc, vaoHandle, vbos, glVaosMade,
                   glBuffersMade, glVao, lenResult>>
    /\ UNCHANGED <<rVariant, rSlots, rBuffer, rListening, rRaf, drawLog>>

\* lib2.rs 244-247: vbo.bind(ctx, attr_locations[name], 3, FLOAT, false,
\* offset_of!(Vertex, field))
RBindAttr ==
    /\ Step \in {"bindPosition", "bindColor"}
    /\ LET name == IF Step = "bindPosition" THEN "position"
                   ELSE "vertexColor"
           arr  == ArrayAfterBind("ARRAY_BUFFER", vbos[1].handle)
       IN  /\ glArray' = arr
           /\ glAttrib' = VertexAttribPointer(arr, rSlots[name], 3, "FLOAT",
                              FALSE, VertexStride(rVariant),
                              VertexOffset(name))
           /\ glEnabled' = [glEnabled EXCEPT ![glVao] = @ \cup {rSlots[name]}]
    /\ rPc' = rPc + 1
    /\ UNCHANGED notRender
    /\ UNCHANGED <<bufVariant, specs, vaoPc, vaoHandle, vbos, glVaosMade,
                   glBuffersMade, glVao, glElement, glData, lenResult,
                   synced>>
    /\ UNCHANGED <<rVariant, rSlots, rBuffer, rListening, rRaf, drawLog>>

\* render(): draw_arrays(TRIANGLES, 0, len) reads the enabled slots of the
\* bound vertex array, len being the count of the host vertices; lib2.rs's
\* render first adds one to its timer, which counts the renders, and
\* writes source[0].pos.x and source[1].pos.x.
Draw(by) ==
    /\ Len(drawLog) < MaxDraws
    /\ drawLog' = Append(drawLog,
           [by |-> by, vao |-> glVao, enabled |-> glEnabled[glVao],
            sources |-> [s \in Slots |-> glAttrib[glVao][s].buffer],
            count |-> Len(VerticesNow)])
    /\ IF rVariant = "lib2.Renderer"
       THEN LET x == SinOf(Len(drawLog) + 1)
            IN  /\ vbos' = [vbos EXCEPT ![1].buffer[1].pos[1] = x,
                                        ![1].buffer[2].pos[1] = F32Neg(x)]
                /\ synced' = [synced EXCEPT ![1].fresh = 0]
       ELSE UNCHANGED <<vbos, synced>>
    /\ UNCHANGED notRender
    /\ UNCHANGED <<bufVariant, specs, vaoPc, vaoHandle, glVaosMade,
                   glBuffersMade, glVao, glArray, glElement, glData,
                   glAttrib, glEnabled, lenResult>>
    /\ UNCHANGED <<rVariant, rSlots, rBuffer, rListening>>

\* lib2.rs 337: render_loop calls callback(true) before it registers
\* anything.
RFirstRender ==
    /\ Step = "firstRender"
    /\ Draw("init")
    /\ rPc' = rPc + 1
    /\ UNCHANGED rRaf

\* add_event_listener_with_callback("resize", ..).expect_throw(..) and
\* callback.forget(): the listener stays registered whatever follows.
RAddListener ==
    /\ Step = "listen"
    /\ \E ok \in BOOLEAN :
          IF ok
          THEN /\ rListening' = TRUE
               /\ rPc' = rPc + 1
          ELSE /\ rPc' = 0
               /\ UNCHANGED rListening
    /\ UNCHANGED notRender
    /\ UNCHANGED bufVars
    /\ UNCHANGED <<rVariant, rSlots, rBuffer, rRaf, drawLog>>

\* render_loop: request_animation_frame(..), whose expect panics when the
\* host refuses; then the return to the host.
RRequestFrame ==
    /\ Step = "requestFrame"
    /\ \E ok \in BOOLEAN :
          IF ok
          THEN /\ rRaf' = TRUE
               /\ rPc' = rPc + 1
          ELSE /\ rPc' = 0
               /\ UNCHANGED rRaf
    /\ UNCHANGED notRender
    /\ UNCHANGED bufVars
    /\ UNCHANGED <<rVariant, rSlots, rBuffer, rListening, drawLog>>

\* The host delivers the requested frame to the frame closure: render(),
\* then request_animation_frame(..) for the next one.
RFrame ==
    /\ Step = "stopped"
    /\ rRaf
    /\ Draw("frame")
    /\ rRaf' \in BOOLEAN
    /\ UNCHANGED rPc

\* The host delivers a resize event to the registered listener:
\* resize_canvas() and render().
RResize ==
    /\ Step = "stopped"
    /\ rListening
    /\ Draw("resize")
    /\ UNCHANGED <<rPc, rRaf>>

\* No renderer is under way.
RenderIdle ==
    /\ rVariant = "lib.Renderer2"
    /\ rPc = 0
    /\ rSlots = [n \in {"position", "vertexColor"} |->
                    IF n = "position" THEN 0 ELSE 1]
    /\ rBuffer = 0
    /\ rListening = FALSE
    /\ rRaf = FALSE
    /\ drawLog = <<>>

\* ------------------------------------------------------------------------
\* Specifications of the buffers

\* No VAO_new is under way.
BufIdle ==
    /\ bufVariant = "renderer"
    /\ specs = <<>>
    /\ vaoPc = "idle"
    /\ vaoHandle = 0
    /\ vbos = <<>>
    /\ glVaosMade = 0
    /\ glBuffersMade = 0
    /\ glVao = 0
    /\ glArray = 0
    /\ glElement = [a \in {0} |-> 0]
    /\ glData = <<>>
    /\ glAttrib = [a \in {0} |-> [s \in Slots |-> NoPointer]]
    /\ glEnabled = [a \in {0} |-> {}]
    /\ lenResult = NoLen
    /\ synced = <<>>
    /\ RenderIdle

\* ------------------------------------------------------------------------
\* Specification of Shader::new

\* No Shader::new is under way.
ShaderIdle ==
    /\ vertOk = TRUE
    /\ fragOk = TRUE
    /\ linkOk = TRUE
    /\ declAttrs = {}
    /\ declUniforms = {}
    /\ attributes = <<>>
    /\ uniforms = <<>>
    /\ shPc = "idle"
    /\ shIdx = 1
    /\ gl = [o \in Objects |-> "none"]
    /\ glLog = <<>>
    /\ attribute_locations = EmptyMap
    /\ uniform_locations = EmptyMap
    /\ shResult = "none"
    /\ lookup = NoLookup

\* No render_loop is under way.
SchedIdle ==
    /\ variant = "renderer"
    /\ hostRaf = TRUE
    /\ hostListen = TRUE
    /\ stack = <<>>
    /\ borrows = 0
    /\ rafPending = 0
    /\ listeners = 0
    /\ result = "none"
    /\ log = <<>>

\* Shader::new is entered with any sources, any declared names and any
\* lists of names to resolve.
ShaderInit ==
    /\ SchedIdle
    /\ vertOk \in BOOLEAN
    /\ fragOk \in BOOLEAN
    /\ linkOk \in BOOLEAN
    /\ declAttrs \in SUBSET AttrNames
    /\ declUniforms \in SUBSET UniformNames
    /\ attributes \in SeqUpTo(AttrNames, MaxNames)
    /\ uniforms \in SeqUpTo(UniformNames, MaxNames)
    /\ shPc = "vert"
    /\ shIdx = 1
    /\ gl = [o \in Objects |-> "none"]
    /\ glLog = <<>>
    /\ attribute_locations = EmptyMap
    /\ uniform_locations = EmptyMap
    /\ shResult = "none"
    /\ lookup = NoLookup
    /\ BufIdle

ShaderNext ==
    \/ CompileVertex
    \/ CompileFragment
    \/ LinkProgram
    \/ DeleteVertex
    \/ DeleteFragment
    \/ ResolveAttribute
    \/ AttributesCollected
    \/ ResolveUniform
    \/ ShaderReturn
    \/ FindAttr
    \/ FindUniform

SpecShader == ShaderInit /\ [][ShaderNext]_vars

\* The specs a caller may give: any records and kinds, and a hint among
\* hints, to renderer.rs's VAO_new; lib2.rs's VBO has one kind and one
\* hint.
SpecValues(v, hints) ==
    [buffer : HostSeqs,
     buffer_type : IF v = "renderer" THEN Kinds ELSE {"ARRAY_BUFFER"},
     access_type : IF v = "renderer" THEN hints ELSE {"STATIC_DRAW"}]

\* VAO_new is entered on a fresh context with specs whose hints are among
\* hints.
BufStart(hints) ==
    /\ SchedIdle
    /\ ShaderIdle
    /\ bufVariant \in {"renderer", "lib2"}
    /\ specs \in SeqUpTo(SpecValues(bufVariant, hints), MaxBuffers)
    /\ vaoPc = "create"
    /\ vaoHandle = 0
    /\ vbos = <<>>
    /\ glVaosMade = 0
    /\ glBuffersMade = 0
    /\ glVao = 0
    /\ glArray = 0
    /\ glElement = [a \in {0} |-> 0]
    /\ glData = <<>>
    /\ glAttrib = [a \in {0} |-> [s \in Slots |-> NoPointer]]
    /\ glEnabled = [a \in {0} |-> {}]
    /\ lenResult = NoLen
    /\ synced = <<>>
    /\ RenderIdle

\* Any specs.
BufInit == BufStart(Hints)

\* Any records and kinds, every buffer with the hint STATIC_DRAW.
BufInitStatic == BufStart({"STATIC_DRAW"})

\* Construction, then synchronization, host writes, len(), binding of a
\* field and activation in any order.
NextVBO ==
    \/ VaoCreate
    \/ VaoBind
    \/ VboNew
    \/ VaoBuilt
    \/ UpdateCall
    \/ HostMutateCall
    \/ LenCall
    \/ BindPosition
    \/ Activate

SpecVBO == BufInitStatic /\ [][NextVBO]_vars

\* Construction, then synchronization and attribute binding with any layout
\* in any order.
NextBind ==
    \/ VaoCreate
    \/ VaoBind
    \/ VboNew
    \/ VaoBuilt
    \/ UpdateCall
    \/ BindCall
    \/ BindFieldCall

SpecBind == BufInit /\ [][NextBind]_vars

\* init is entered on a fresh context, with the slots the linked program
\* gave the attributes.
RenderInit ==
    /\ SchedIdle
    /\ ShaderIdle
    /\ rVariant \in Renderers
    /\ bufVariant = (IF rVariant = "lib2.Renderer" THEN "lib2" ELSE "renderer")
    /\ specs = <<>>
    /\ vaoPc = "idle"
    /\ vaoHandle = 0
    /\ vbos = <<>>
    /\ glVaosMade = 0
    /\ glBuffersMade = 0
    /\ glVao = 0
    /\ glArray = 0
    /\ glElement = [a \in {0} |-> 0]
    /\ glData = <<>>
    /\ glAttrib = [a \in {0} |-> [s \in Slots |-> NoPointer]]
    /\ glEnabled = [a \in {0} |-> {}]
    /\ lenResult = NoLen
    /\ synced = <<>>
    /\ rPc = 1
    /\ rSlots \in {f \in [{"position", "vertexColor"} -> Slots] :
                      f["position"] # f["vertexColor"]}
    /\ rBuffer = 0
    /\ rListening = FALSE
    /\ rRaf = FALSE
    /\ drawLog = <<>>

NextRender ==
    \/ RCreateBuffer
    \/ RCreateVao
    \/ RBindVao
    \/ RUpdate
    \/ RBindAttr
    \/ RFirstRender
    \/ RAddListener
    \/ RRequestFrame
    \/ RFrame
    \/ RResize

SpecRender == RenderInit /\ [][NextRender]_vars



\* ------------------------------------------------------------------------
\* Specifications of the scheduler

SchedInit ==
    /\ variant \in Variants
    /\ hostRaf \in BOOLEAN
    /\ hostListen \in BOOLEAN
    /\ stack = <<Frame("start", "begin")>>
    /\ borrows = 0
    /\ rafPending = 0
    /\ listeners = 0
    /\ result = "none"
    /\ log = <<>>

Init == SchedInit /\ ShaderIdle /\ BufIdle

Next ==
    \/ StartInitialCallback
    \/ CallbackReturn
    \/ StartRequestFrame
    \/ StartAddListener
    \/ StartReturn
    \/ HostDeliverFrame
    \/ HostDeliverResize
    \/ FrameInvoke
    \/ FrameRerequest
    \/ ResizeInvoke
    \/ ResizeReturn

Spec == Init /\ [][Next]_vars

\* The host's events as above, and a callback that may dispatch a resize
\* event synchronously while it runs.
NextReentrant == Next \/ CallbackDispatchesResize

SpecReentrant == Init /\ [][NextReentrant]_vars

\* Scheduler code that is running takes its next step, a callback that
\* was called returns, and the host delivers every frame requested of it
\* (resize events may come at any rate, or never).
Fairness ==
    /\ WF_vars(StartInitialCallback)
    /\ WF_vars(CallbackReturn)
    /\ WF_vars(StartRequestFrame)
    /\ WF_vars(StartAddListener)
    /\ WF_vars(StartReturn)
    /\ WF_vars(FrameInvoke)
    /\ WF_vars(FrameRerequest)
    /\ WF_vars(ResizeInvoke)
    /\ WF_vars(ResizeReturn)
    /\ SF_vars(HostDeliverFrame)

FairSpec == Spec /\ Fairness

\* ------------------------------------------------------------------------
\* Reading the history

Positions == 1..Len(log)

Count(ev, arg, by) == Cardinality({i \in Positions : log[i] = Ev(ev, arg, by)})

Calls(arg) == Cardinality({i \in Positions : log[i].ev = "call" /\ log[i].arg = arg})

\* Event e is at position i, when the history reaches that far.
Then(i, e) == i <= Len(log) => log[i] = e

Failed == result \in {"err", "throw", "panic"}

\* ------------------------------------------------------------------------
\* Claims about the scheduler

\* C1: render_loop calls callback(true) exactly once, to completion, before
\* it requests a frame or registers the resize listener: the first event is
\* that call, it is the only call render_loop makes itself, and every
\* request, registration and closure call comes after its return.
C1_InitialCallbackFirst ==
    /\ Then(1, Ev("call", TRUE, "start"))
    /\ Then(2, Ev("ret", FALSE, "start"))
    /\ Count("call", TRUE, "start") <= 1
    /\ Count("call", FALSE, "start") = 0
    /\ \A i \in Positions :
          \/ log[i].ev \in {"raf", "listen", "frame", "resize"}
          \/ log[i].ev = "call" /\ log[i].by # "start"
          => /\ i > 2
             /\ log[1] = Ev("call", TRUE, "start")
             /\ log[2] = Ev("ret", FALSE, "start")
    /\ (rafPending > 0 \/ listeners > 0 \/ result # "none")
          => Count("call", TRUE, "start") = 1

C1_Witness ==
    /\ Count("call", FALSE, "frame") >= 1
    /\ Count("call", TRUE, "resize") >= 1
    /\ Count("call", TRUE, "start") = 1

\* C2: every resize event the host delivers between frames is answered by
\* exactly one callback(true), and callback(false) has been called once per
\* frame the host delivered: a resize neither drops nor repeats a frame.
C2_ResizeOnceFramesKept ==
    /\ \A i \in Positions :
          log[i] = Ev("resize", FALSE, "host")
          => /\ Then(i + 1, Ev("call", TRUE, "resize"))
             /\ Then(i + 2, Ev("ret", FALSE, "resize"))
             /\ Then(i + 3, Ev("done", FALSE, "resize"))
    /\ (Idle /\ Recording)
          => /\ Count("call", TRUE, "resize") = Count("resize", FALSE, "host")
             /\ Calls(TRUE) = 1 + Count("resize", FALSE, "host")
             /\ Calls(FALSE) = Count("frame", FALSE, "host")

C2_Witness ==
    /\ Idle
    /\ Recording
    /\ \E i, j, k \in Positions :
          /\ i < j /\ j < k
          /\ log[i] = Ev("frame", FALSE, "host")
          /\ log[j] = Ev("resize", FALSE, "host")
          /\ log[k] = Ev("frame", FALSE, "host")
          /\ \A m \in (i + 1)..(k - 1) : log[m].ev # "frame"

\* C3: a delivered frame is followed by exactly one callback(false), then
\* that callback's return, then the request of the next frame, and that
\* request leaves exactly one frame pending.
C3_FrameCallThenRequest ==
    /\ \A i \in Positions :
          log[i] = Ev("frame", FALSE, "host")
          => /\ Then(i + 1, Ev("call", FALSE, "frame"))
             /\ Then(i + 2, Ev("ret", FALSE, "frame"))
             /\ Then(i + 3, Ev("raf", FALSE, "frame"))
             /\ i + 4 <= Len(log) => log[i + 4].by = "host"
    /\ \A i \in Positions :
          log[i].by = "frame"
          => \E j \in 1..i : j + 3 >= i /\ log[j] = Ev("frame", FALSE, "host")
    /\ (~Idle /\ Top.fn = "frame") => rafPending = 0
    /\ (Recording /\ log # <<>> /\ log[Len(log)] = Ev("raf", FALSE, "frame"))
          => rafPending = 1

C3_Witness ==
    /\ Recording
    /\ Count("raf", FALSE, "frame") >= 2
    /\ log[Len(log)] = Ev("raf", FALSE, "frame")

\* C4: at most one frame request is pending and at most one resize listener
\* is registered, whatever events have been delivered.
C4_AtMostOneRegistered ==
    /\ rafPending <= 1
    /\ listeners <= 1

C4_Witness ==
    /\ rafPending = 1
    /\ listeners = 1
    /\ Count("done", FALSE, "resize") >= 1
    /\ Count("raf", FALSE, "frame") >= 1

\* C5: at most one execution of the user callback is in progress and the
\* RefCell around it is never borrowed twice at once, also when the running
\* callback dispatches a resize event synchronously.
C5_OneCallbackInFlight ==
    /\ Cardinality(InCallback) <= 1
    /\ borrows <= 1
    /\ \A i \in InCallback : stack[i].fn # "start" => borrows = 1

C5_Witness ==
    /\ Len(stack) = 2
    /\ stack[1].pc = "in_cb"
    /\ Top = Frame("resize", "begin")
    /\ borrows = 1

\* C6, the state part: once render_loop has returned Ok, a frame request
\* is pending or the frame closure is running.
Running ==
    result = "ok" =>
        \/ rafPending >= 1
        \/ \E i \in 1..Len(stack) : stack[i].fn = "frame"

\* C6: once start has succeeded the scheduler stays running, and with a
\* host that delivers every requested frame and a callback that returns,
\* callback(false) is called again and again.
C6_StaysRunning ==
    /\ []Running
    /\ (result = "ok") ~> At("frame", "begin")
    /\ At("frame", "begin") ~> At("frame", "in_cb")
    /\ At("frame", "in_cb") ~> (Idle /\ rafPending >= 1)

C6_Witness ==
    /\ result = "ok"
    /\ Idle
    /\ rafPending = 1
    /\ Count("call", FALSE, "frame") >= 2
    /\ Count("call", TRUE, "resize") >= 1

\* C7: when requesting the frame or registering the listener fails, the
\* scheduler is not left running: no frame request stays pending and the
\* callback is not called after the failure.
C7_FailureStopsScheduler ==
    Failed =>
        /\ rafPending = 0
        /\ \A i, j \in Positions :
              (i < j /\ log[i].ev \in {"fail", "panic"}) => log[j].ev # "call"

\* ------------------------------------------------------------------------
\* Claims about Shader::new

Range(f) == {f[i] : i \in DOMAIN f}

\* Position of the first call `c` in glLog, 0 when there is none.
FirstCall(c) ==
    IF \E i \in 1..Len(glLog) : glLog[i] = c
    THEN CHOOSE i \in 1..Len(glLog) :
            glLog[i] = c /\ \A j \in 1..(i - 1) : glLog[j] # c
    ELSE 0

Resolutions ==
    {i \in 1..Len(glLog) :
        glLog[i][1] \in {"get_attrib_location", "get_uniform_location"}}

\* C8: a Shader is returned only when the program declares every requested
\* name, and no name is mapped to the slot made from a -1 result.
C8_UnknownBindingFails ==
    shResult = "ok" =>
        /\ Range(attributes) \subseteq declAttrs
        /\ Range(uniforms) \subseteq declUniforms
        /\ \A n \in DOMAIN attribute_locations :
              attribute_locations[n] # U32(-1)

\* C9: when Shader::new has failed, none of the GPU objects it created is
\* still alive.
C9_FailureReleasesAll ==
    shResult \in {"throw", "panic"} => \A o \in Objects : gl[o] # "live"

\* C10: both shader objects are deleted after the link and before the first
\* handle is resolved, and a returned Shader has both deleted and its
\* program alive.
C10_ShadersDeletedAfterLink ==
    /\ shResult = "ok"
         => /\ gl["vert_shader"] = "deleted"
            /\ gl["frag_shader"] = "deleted"
            /\ gl["program"] = "live"
    /\ \A o \in {"vert_shader", "frag_shader"} :
         /\ gl[o] = "deleted"
              => /\ FirstCall(Call("link_program", "program")) > 0
                 /\ FirstCall(Call("link_program", "program"))
                        < FirstCall(Call("delete_shader", o))
         /\ \A i \in Resolutions :
              /\ FirstCall(Call("delete_shader", o)) > 0
              /\ FirstCall(Call("delete_shader", o)) < i

C10_Witness ==
    /\ shResult = "ok"
    /\ Len(attributes) >= 1
    /\ Len(uniforms) >= 1
    /\ DOMAIN attribute_locations # {}
    /\ DOMAIN uniform_locations # {}

\* What the last lookup must have produced: the handle resolved for the
\* name when the Shader was built, a failure for a name that was not given.
LookupRight ==
    /\ lookup.fn = "find_attr" =>
          lookup.out = IF lookup.name \in Range(attributes)
                       THEN <<"Some", U32(GetAttribLocation(lookup.name))>>
                       ELSE <<"panic">>
    /\ lookup.fn = "find_uniform" =>
          lookup.out = IF lookup.name \in Range(uniforms)
                       THEN <<"Some", lookup.name>>
                       ELSE <<"panic">>

\* C11: once the Shader is built, a lookup changes neither map, gives a
\* registered name the handle resolved at construction and fails for a name
\* that was not registered.
C11_LookupsArePure ==
    [][shPc = "done" =>
         /\ attribute_locations' = attribute_locations
         /\ uniform_locations' = uniform_locations
         /\ LookupRight']_vars

C11_Witness ==
    /\ shPc = "done"
    /\ lookup.fn = "find_attr"
    /\ lookup.out = <<"panic">>
    /\ DOMAIN attribute_locations # {}
    /\ DOMAIN uniform_locations # {}

\* The GPU store of the i-th buffer.
Gpu(i) == glData[vbos[i].handle].data

\* The step is VBO::new, of renderer.rs or of lib2.rs, building the i-th
\* buffer.
NewBuilds(i) ==
    /\ VboNew
    /\ Len(vbos) = i - 1
    /\ Len(vbos') = i

\* C12: right after VBO::new and right after every update,
\* the buffer's own GPU store is exactly the raw bytes of its whole host
\* sequence in order, len * size_of(Record) of them, whatever the store
\* held and whatever was bound to the target before.
C12_SyncUploadsRawBytes ==
    [][\A i \in 1..MaxBuffers :
          (Update(i) \/ NewBuilds(i)) =>
             /\ Gpu(i)' = RawBytes(vbos'[i].buffer)
             /\ Len(Gpu(i)') = Len(vbos'[i].buffer) * SizeOfRecord]_vars

\* C13: an update of a buffer that was synchronized since its last host
\* write leaves the content of its GPU store as the earlier update left it.
C13_UpdateIdempotent ==
    [][\A i \in 1..MaxBuffers :
          (Update(i) /\ synced[i].fresh >= 1) => Gpu(i)' = Gpu(i)]_vars

\* A buffer that holds records was synchronized twice with no host write
\* in between.
C13_Witness ==
    \E i \in 1..Len(vbos) :
        /\ synced[i].fresh = 2
        /\ vbos[i].buffer # <<>>
        /\ Gpu(i) = RawBytes(vbos[i].buffer)

\* C14: whatever the host writes, binds, measures or activates, the GPU
\* store of a synchronized buffer holds the host bytes as they were at its
\* last synchronization.
C14_HostWritesStayOnHost ==
    \A i \in 1..Len(vbos) : synced[i].done => Gpu(i) = synced[i].bytes

\* The host has written a synchronized buffer, called len() on it and bound
\* a field; its records differ from what the GPU still holds.
C14_Witness ==
    \E i \in 1..Len(vbos) :
        /\ synced[i].done
        /\ synced[i].fresh = 0
        /\ RawBytes(vbos[i].buffer) # synced[i].bytes
        /\ Gpu(i) = synced[i].bytes
        /\ lenResult.vbo = i
        /\ glEnabled[glVao] # {}

\* C15: bind on the i-th buffer points the slot at this buffer with the
\* given count, type and offset and the stride size_of(Record), enables
\* the slot, and changes no other slot's pointer or enabled flag.
C15_BindPointsSlotAtThisBuffer ==
    [][\A i \in 1..MaxBuffers, addr \in Slots, size \in Sizes,
          type \in Types, offset \in Offsets :
          Bind(i, addr, size, type, FALSE, offset) =>
             /\ glAttrib'[glVao'][addr] =
                   [buffer |-> vbos[i].handle, size |-> size, type |-> type,
                    normalized |-> FALSE, stride |-> SizeOfRecord,
                    offset |-> offset]
             /\ addr \in glEnabled'[glVao']
             /\ \A s \in Slots \ {addr} :
                   /\ glAttrib'[glVao'][s] = glAttrib[glVao][s]
                   /\ (s \in glEnabled'[glVao']) = (s \in glEnabled[glVao])]_vars

\* C16: bind with a layout that ends beyond size_of(Record) is rejected:
\* it sets no attribute pointer and enables no slot.
C16_IllFittingBindRejected ==
    [][\A i \in 1..MaxBuffers, addr \in Slots, size \in Sizes,
          type \in Types, offset \in Offsets :
          (/\ Bind(i, addr, size, type, FALSE, offset)
           /\ offset + size * TypeSize(type) > SizeOfRecord) =>
             /\ glAttrib' = glAttrib
             /\ glEnabled' = glEnabled]_vars

\* C17: VAO_new creates one vertex array and has it bound before any
\* buffer exists; it creates one buffer per spec, the i-th with the
\* records, kind and hint of the i-th spec, and returns with all n.
C17_OneArrayBuffersInSpecOrder ==
    /\ glVaosMade <= 1
    /\ glBuffersMade > 0 => (glVaosMade = 1 /\ vaoHandle # 0 /\ glVao = vaoHandle)
    /\ glBuffersMade = Len(vbos)
    /\ Len(vbos) <= Len(specs)
    /\ \A i \in 1..Len(vbos) :
          /\ vbos[i].buffer_type = specs[i].buffer_type
          /\ vbos[i].access_type = specs[i].access_type
          /\ vaoPc = "buffers" => vbos[i].buffer = specs[i].buffer
          /\ \A j \in 1..Len(vbos) : vbos[i].handle = vbos[j].handle => i = j
    /\ vaoPc = "built" => Len(vbos) = Len(specs)

\* VAO_new has returned two buffers from two specs that differ in records,
\* kind and hint.
C17_Witness ==
    /\ vaoPc = "built"
    /\ bufVariant = "renderer"
    /\ Len(specs) = 2
    /\ \A i \in 1..2 : synced[i].fresh = 1 /\ vbos[i].buffer # <<>>
    /\ vbos[1].buffer # vbos[2].buffer
    /\ specs[1].buffer_type # specs[2].buffer_type
    /\ specs[1].access_type # specs[2].access_type
    /\ vbos[2].buffer_type = specs[2].buffer_type

\* C18: len() on the i-th buffer returns the number of records its host
\* sequence holds now, whatever the GPU holds and whatever the other
\* buffers hold.
C18_LenIsHostCount ==
    [][LenCall =>
          \E i \in 1..Len(vbos) :
              lenResult' = [vbo |-> i, n |-> Len(vbos[i].buffer)]]_vars

\* len() returned 0 for an empty index buffer whose GPU store still holds a
\* record, next to a vertex buffer that holds one.
C18_Witness ==
    /\ Len(vbos) = 2
    /\ vbos[1].buffer_type = "ARRAY_BUFFER"
    /\ vbos[1].buffer # <<>>
    /\ vbos[2].buffer_type = "ELEMENT_ARRAY_BUFFER"
    /\ vbos[2].buffer = <<>>
    /\ Gpu(2) # <<>>
    /\ lenResult = [vbo |-> 2, n |-> 0]

\* C19: in every renderer, at every draw the bound vertex array has each
\* slot the shader reads enabled and pointed at the vertex buffer, as set
\* up while that vertex array was bound.
C19_DrawsReadBoundArray ==
    \A k \in 1..Len(drawLog) :
        \A n \in UsedNames(rVariant) :
            /\ rSlots[n] \in drawLog[k].enabled
            /\ drawLog[k].sources[rSlots[n]] = rBuffer

====
